---- MODULE Spec2Model ----
(***************************************************************************)
(* Model of the sub_tilts_hybrid program (src/lib.rs): the RoutingRules    *)
(* account, the four instructions set_rules_uri, execute_payments,         *)
(* verify_distribution and update_rules_hash, the account validation that  *)
(* the Accounts structs attach to each of them, and the transaction of the *)
(* host ledger around execute_payments' transfers. The PolicyStore's        *)
(* create_policy, of which src/lib.rs holds only the error declaration, is *)
(* modelled from the specification.                                        *)
(*                                                                         *)
(* Left to the host and not modelled: the lamports a RoutingRules account  *)
(* holds for rent, the signature of the new account's own key at init, the *)
(* identity of the system program passed with a call, and the length limit *)
(* of rules_uri.                                                           *)
(***************************************************************************)
EXTENDS Integers, Sequences, FiniteSets, TLC

\* u64 holds 0 .. U64Mod-1; the width is scaled down so that sums can overflow.
U64Mod == 4
\* Longest payment_amounts / remaining_accounts list that is enumerated.
MaxLen == 2

U64 == 0 .. (U64Mod - 1)

\* Wallet keys that can sign, and the system program's own (read-only,
\* executable) account, which a caller may also list as a recipient.
Keys == {"k1", "k2"}
SystemProgram == "sys"
Accounts == Keys \cup {SystemProgram}

\* Addresses at which a RoutingRules account may be created.
Addrs == {"a1", "a2"}
URIs == {"u1", "u2"}

\* [u8; 32] digests; ZeroHash is [0u8; 32].
ZeroHash == "00"
Hashes == {ZeroHash, "h1", "h2"}

SeqsUpTo(S, n) == UNION {[1 .. k -> S] : k \in 0 .. n}

VARIABLES
    lamports,       \* the ledger: balance of every account
    routing_rules,  \* the ledger: RoutingRules account at every address
    tx,             \* balances as the running instruction sees them
    pc,             \* position of the current call
    call,           \* instruction and arguments of the current call
    result,         \* what the call returned
    events,         \* transfers the current call has performed, in order
    pre,            \* the ledger as it was when the current call started
    policies        \* the ledger: Policy record of every owner

vars == <<lamports, routing_rules, tx, pc, call, result, events, pre, policies>>

\* An address that holds no RoutingRules account.
NoRecord == [init |-> FALSE, owner |-> "none", rules_uri |-> "", rules_hash |-> ZeroHash]

NoCall == [op |-> "none"]

\* An owner for whom no Policy record has been written.
NoPolicy == [initialized |-> FALSE, weights |-> <<>>]

NoPolicies == [k \in Keys |-> NoPolicy]

Snapshot == [lamports |-> lamports, routing_rules |-> routing_rules, policies |-> policies]

\* ------------------------------------------------------------------------
\* Arithmetic

RECURSIVE TrueSum(_)
TrueSum(s) == IF s = <<>> THEN 0 ELSE Head(s) + TrueSum(Tail(s))

\* payment_amounts.iter().sum() on u64. When the mathematical sum leaves the
\* u64 range the outcome depends on the build profile: with overflow checks
\* the program panics, without them the sum wraps.
IterSum(s) ==
    IF TrueSum(s) >= U64Mod
    THEN {[panic |-> TRUE, sum |-> 0], [panic |-> FALSE, sum |-> TrueSum(s) % U64Mod]}
    ELSE {[panic |-> FALSE, sum |-> TrueSum(s)]}

\* ------------------------------------------------------------------------
\* Account validation (the Accounts structs)

\* Account<'info, RoutingRules>: the address must hold an initialised account.
IsRoutingRules(rr) == routing_rules[rr].init

\* has_one = owner @ CustomError::Unauthorized
HasOneOwner(rr, owner) == routing_rules[rr].owner = owner

\* Faulty variant: the ExecutePayments struct without its has_one constraint.
ExecutePaymentsAccounts_NoHasOne(rr, payer_signed, owner) ==
    IF ~IsRoutingRules(rr) THEN "AccountNotInitialized"
    ELSE IF ~payer_signed THEN "AccountNotSigner"
    ELSE "Ok"

\* ExecutePayments: the accounts are deserialised in field order
\* (routing_rules: Account, payer: Signer), then has_one is checked. The
\* owner account is unchecked: it need not sign.
ExecutePaymentsAccounts(rr, payer_signed, owner) ==
    IF ~IsRoutingRules(rr) THEN "AccountNotInitialized"
    ELSE IF ~payer_signed THEN "AccountNotSigner"
    ELSE IF ~HasOneOwner(rr, owner) THEN "Unauthorized"
    ELSE "Ok"

\* ------------------------------------------------------------------------
\* The system program's transfer, invoked once per recipient

\* The transfer fails when the payer holds less than amount, and when the
\* recipient account cannot be written (the system program's own account).
TransferError(bal, from, to, amount) ==
    IF to = SystemProgram THEN "InvalidRecipient"
    ELSE IF bal[from] < amount THEN "InsufficientFunds"
    ELSE "Ok"

\* Debit first, then credit: a transfer to oneself leaves the balance as it was.
Transfer(bal, from, to, amount) ==
    LET debited == [bal EXCEPT ![from] = @ - amount]
    IN  [debited EXCEPT ![to] = @ + amount]

\* ------------------------------------------------------------------------
\* execute_payments

ExecArgs ==
    [routing_rules : Addrs, payer : Keys, payer_signed : BOOLEAN, owner : Keys,
     payment_amounts : SeqsUpTo(U64, MaxLen), total_amount : U64,
     remaining_accounts : SeqsUpTo(Accounts, MaxLen)]

\* Faulty variant: the count check accepts fewer recipients than amounts.
CountMatches_AtMost(a) == Len(a.remaining_accounts) <= Len(a.payment_amounts)

\* require!(ctx.remaining_accounts.len() == payment_amounts.len(), ...)
CountMatches(a) == Len(a.remaining_accounts) = Len(a.payment_amounts)

\* Faulty variant: the total is not checked.
SumMatches_Skipped(sum, a) == TRUE

\* require!(sum == total_amount, ...)
SumMatches(sum, a) == sum = a.total_amount

\* Faulty variant: the total is checked before the recipient count.
ExecutePaymentsChecks_SumFirst(a, s) ==
    IF ExecutePaymentsAccounts(a.routing_rules, a.payer_signed, a.owner) # "Ok"
    THEN ExecutePaymentsAccounts(a.routing_rules, a.payer_signed, a.owner)
    ELSE IF s.panic THEN "Panic"
    ELSE IF ~SumMatches(s.sum, a) THEN "InvalidTotalAmount"
    ELSE IF ~CountMatches(a) THEN "RecipientCountMismatch"
    ELSE "Ok"

\* What the handler's preconditions return for arguments a when the sum
\* evaluates to outcome s.
ExecutePaymentsChecks(a, s) ==
    IF ExecutePaymentsAccounts(a.routing_rules, a.payer_signed, a.owner) # "Ok"
    THEN ExecutePaymentsAccounts(a.routing_rules, a.payer_signed, a.owner)
    ELSE IF ~CountMatches(a) THEN "RecipientCountMismatch"
    ELSE IF s.panic THEN "Panic"
    ELSE IF ~SumMatches(s.sum, a) THEN "InvalidTotalAmount"
    ELSE "Ok"

\* Entry of the instruction: account validation and the two require! checks.
execute_payments(a) ==
    /\ pc = "Idle"
    /\ \E s \in IterSum(a.payment_amounts) :
         LET r == ExecutePaymentsChecks(a, s)
         IN  /\ pc' = IF r = "Ok" THEN "Transferring" ELSE "Aborted"
             /\ result' = IF r = "Ok" THEN "Pending" ELSE r
    /\ call' = [op |-> "execute_payments"] @@ a
    /\ pre' = Snapshot
    /\ tx' = lamports
    /\ events' = <<>>
    /\ UNCHANGED <<lamports, routing_rules, policies>>

\* Faulty variant: the loop starts one recipient too far.
NextIndex_OffByOne == Len(events) + 2

\* Index (1-based) of the recipient the loop handles next.
NextIndex == Len(events) + 1

\* Faulty variant: the writes made before the failing transfer stay on the ledger.
AfterFailure_KeepsWrites == tx

\* What the ledger holds after an instruction has failed: the transaction's
\* writes are dropped.
AfterFailure == lamports

\* Faulty variant: the transfers are drawn on the record's owner.
ExecTransfer_FromOwner ==
    /\ pc = "Transferring"
    /\ NextIndex <= Len(call.remaining_accounts)
    /\ LET i == NextIndex
           to == call.remaining_accounts[i]
           amount == call.payment_amounts[i]
           e == TransferError(tx, call.owner, to, amount)
       IN  IF e = "Ok"
           THEN /\ tx' = Transfer(tx, call.owner, to, amount)
                /\ events' = Append(events, [index |-> i, to |-> to, amount |-> amount])
                /\ UNCHANGED <<lamports, pc, result>>
           ELSE /\ pc' = "RolledBack"
                /\ result' = e
                /\ lamports' = AfterFailure
                /\ tx' = AfterFailure
                /\ UNCHANGED events
    /\ UNCHANGED <<routing_rules, call, pre, policies>>

\* One iteration of the loop: invoke(transfer(payer, recipient, amount))?
ExecTransfer ==
    /\ pc = "Transferring"
    /\ NextIndex <= Len(call.remaining_accounts)
    /\ LET i == NextIndex
           to == call.remaining_accounts[i]
           amount == call.payment_amounts[i]
           e == TransferError(tx, call.payer, to, amount)
       IN  IF e = "Ok"
           THEN /\ tx' = Transfer(tx, call.payer, to, amount)
                /\ events' = Append(events, [index |-> i, to |-> to, amount |-> amount])
                /\ UNCHANGED <<lamports, pc, result>>
           ELSE /\ pc' = "RolledBack"
                /\ result' = e
                /\ lamports' = AfterFailure
                /\ tx' = AfterFailure
                /\ UNCHANGED events
    /\ UNCHANGED <<routing_rules, call, pre, policies>>

\* The host fails the invoked transfer for a reason of its own.
ExecFault ==
    /\ pc = "Transferring"
    /\ NextIndex <= Len(call.remaining_accounts)
    /\ pc' = "RolledBack"
    /\ result' = "EnvironmentFault"
    /\ lamports' = AfterFailure
    /\ tx' = AfterFailure
    /\ UNCHANGED <<routing_rules, call, pre, events, policies>>

\* The loop is over: Ok(()) and the transaction's writes reach the ledger.
ExecCommit ==
    /\ pc = "Transferring"
    /\ NextIndex > Len(call.remaining_accounts)
    /\ pc' = "Committed"
    /\ result' = "Ok"
    /\ lamports' = tx
    /\ UNCHANGED <<routing_rules, tx, call, pre, events, policies>>

\* ------------------------------------------------------------------------
\* set_rules_uri

SetRulesUriArgs ==
    [routing_rules : Addrs, owner : Keys, owner_signed : BOOLEAN, rules_uri : URIs]

\* Faulty variant: init_if_needed, an address in use is accepted.
SetRulesUriAccounts_IfNeeded(rr, owner_signed) ==
    IF ~owner_signed THEN "AccountNotSigner" ELSE "Ok"

\* SetRulesUri: owner must sign; #[account(init, payer = owner, space = ...)]
\* creates the account at the address the caller supplies, and creation
\* fails when that address is already in use.
SetRulesUriAccounts(rr, owner_signed) ==
    IF ~owner_signed THEN "AccountNotSigner"
    ELSE IF IsRoutingRules(rr) THEN "AccountAlreadyInUse"
    ELSE "Ok"

\* The record the handler leaves behind: owner and rules_uri as given, the
\* rest of the freshly allocated account zero.
NewRoutingRules(a) ==
    [init |-> TRUE, owner |-> a.owner, rules_uri |-> a.rules_uri, rules_hash |-> ZeroHash]

set_rules_uri(a) ==
    /\ pc = "Idle"
    /\ LET r == SetRulesUriAccounts(a.routing_rules, a.owner_signed)
       IN  /\ result' = r
           /\ routing_rules' =
                IF r = "Ok"
                THEN [routing_rules EXCEPT ![a.routing_rules] = NewRoutingRules(a)]
                ELSE routing_rules
    /\ pc' = "Done"
    /\ call' = [op |-> "set_rules_uri"] @@ a
    /\ pre' = Snapshot
    /\ UNCHANGED <<lamports, tx, events, policies>>

\* ------------------------------------------------------------------------
\* update_rules_hash

UpdateRulesHashArgs ==
    [routing_rules : Addrs, owner : Keys, owner_signed : BOOLEAN, rules_hash : Hashes]

\* Faulty variant: the UpdateRulesHash struct without its has_one constraint.
UpdateRulesHashAccounts_NoHasOne(rr, owner, owner_signed) ==
    IF ~IsRoutingRules(rr) THEN "AccountNotInitialized"
    ELSE IF ~owner_signed THEN "AccountNotSigner"
    ELSE "Ok"

\* UpdateRulesHash: the accounts are deserialised in field order
\* (routing_rules: Account, owner: Signer), then has_one is checked.
UpdateRulesHashAccounts(rr, owner, owner_signed) ==
    IF ~IsRoutingRules(rr) THEN "AccountNotInitialized"
    ELSE IF ~owner_signed THEN "AccountNotSigner"
    ELSE IF ~HasOneOwner(rr, owner) THEN "Unauthorized"
    ELSE "Ok"

\* Faulty variant: a hash, once set, is kept; only an unset hash is written.
update_rules_hash_WriteOnce(a) ==
    /\ pc = "Idle"
    /\ LET r == UpdateRulesHashAccounts(a.routing_rules, a.owner, a.owner_signed)
       IN  /\ result' = r
           /\ routing_rules' =
                IF r = "Ok" /\ routing_rules[a.routing_rules].rules_hash = ZeroHash
                THEN [routing_rules EXCEPT ![a.routing_rules].rules_hash = a.rules_hash]
                ELSE routing_rules
    /\ pc' = "Done"
    /\ call' = [op |-> "update_rules_hash"] @@ a
    /\ pre' = Snapshot
    /\ UNCHANGED <<lamports, tx, events, policies>>

\* Faulty variant: the new hash is written to every record of the owner.
update_rules_hash_EveryRecord(a) ==
    /\ pc = "Idle"
    /\ LET r == UpdateRulesHashAccounts(a.routing_rules, a.owner, a.owner_signed)
       IN  /\ result' = r
           /\ routing_rules' =
                IF r = "Ok"
                THEN [b \in Addrs |->
                        IF routing_rules[b].init /\ routing_rules[b].owner = a.owner
                        THEN [routing_rules[b] EXCEPT !.rules_hash = a.rules_hash]
                        ELSE routing_rules[b]]
                ELSE routing_rules
    /\ pc' = "Done"
    /\ call' = [op |-> "update_rules_hash"] @@ a
    /\ pre' = Snapshot
    /\ UNCHANGED <<lamports, tx, events, policies>>

\* routing_rules.rules_hash = rules_hash, on the record the call names.
update_rules_hash(a) ==
    /\ pc = "Idle"
    /\ LET r == UpdateRulesHashAccounts(a.routing_rules, a.owner, a.owner_signed)
       IN  /\ result' = r
           /\ routing_rules' =
                IF r = "Ok"
                THEN [routing_rules EXCEPT ![a.routing_rules].rules_hash = a.rules_hash]
                ELSE routing_rules
    /\ pc' = "Done"
    /\ call' = [op |-> "update_rules_hash"] @@ a
    /\ pre' = Snapshot
    /\ UNCHANGED <<lamports, tx, events, policies>>

\* ------------------------------------------------------------------------
\* verify_distribution

\* n_remaining is the number of remaining_accounts passed with the call.
VerifyArgs ==
    [routing_rules : Addrs, payment_amounts : SeqsUpTo(U64, MaxLen),
     rules_hash : Hashes, total_amount : U64, n_remaining : 0 .. MaxLen]

\* VerifyDistribution: routing_rules is the only account that is validated.
VerifyDistributionAccounts(rr) ==
    IF ~IsRoutingRules(rr) THEN "AccountNotInitialized" ELSE "Ok"

\* Faulty variant: the stored hash is compared even when it is all-zero.
RulesHashMatches_Always(stored, rules_hash) == stored = rules_hash

\* if routing_rules.rules_hash != [0u8; 32] { require!(stored == rules_hash) }
RulesHashMatches(stored, rules_hash) ==
    stored # ZeroHash => stored = rules_hash

VerifyDistributionChecks(a, s) ==
    IF VerifyDistributionAccounts(a.routing_rules) # "Ok"
    THEN VerifyDistributionAccounts(a.routing_rules)
    ELSE IF ~RulesHashMatches(routing_rules[a.routing_rules].rules_hash, a.rules_hash)
    THEN "RulesHashMismatch"
    ELSE IF s.panic THEN "Panic"
    ELSE IF ~SumMatches(s.sum, a) THEN "InvalidTotalAmount"
    ELSE "Ok"

\* Faulty variant: a successful verification against an unset hash stores
\* the submitted hash in the record.
verify_distribution_StoresHash(a) ==
    /\ pc = "Idle"
    /\ \E s \in IterSum(a.payment_amounts) :
         /\ result' = VerifyDistributionChecks(a, s)
         /\ routing_rules' =
              IF result' = "Ok" /\ routing_rules[a.routing_rules].rules_hash = ZeroHash
              THEN [routing_rules EXCEPT ![a.routing_rules].rules_hash = a.rules_hash]
              ELSE routing_rules
    /\ pc' = "Done"
    /\ call' = [op |-> "verify_distribution"] @@ a
    /\ pre' = Snapshot
    /\ UNCHANGED <<lamports, tx, events, policies>>

\* The handler reads the record and its arguments and writes nothing.
verify_distribution(a) ==
    /\ pc = "Idle"
    /\ \E s \in IterSum(a.payment_amounts) :
         result' = VerifyDistributionChecks(a, s)
    /\ pc' = "Done"
    /\ call' = [op |-> "verify_distribution"] @@ a
    /\ pre' = Snapshot
    /\ UNCHANGED <<lamports, routing_rules, tx, events, policies>>

\* ------------------------------------------------------------------------
\* create_policy (PolicyStore). src/lib.rs declares only the error of this
\* instruction (InvalidTotalPercentage, "Total percentage must equal 100");
\* the handler is modelled from the specification's section 4.1.

\* A Policy holds ten percentage weights that must add up to a hundred.
WeightSlots == 10
WeightTotal == 100

\* Weights are integers in 0 .. 100; these three are enumerated.
WeightValues == {0, 10, 100}

WeightVectors == [1 .. WeightSlots -> WeightValues]

CreatePolicyArgs == [owner : Keys, weights : WeightVectors]

\* Faulty variant: weights that add up to less than the total are accepted.
WeightsValid_AtMost(w) == TrueSum(w) <= WeightTotal

WeightsValid(w) == TrueSum(w) = WeightTotal

NewPolicy(a) == [initialized |-> TRUE, weights |-> a.weights]

\* Invalid weights are refused with InvalidTotalPercentage (the InvalidWeights of the
\* specification); otherwise the record is
\* created if the owner has none, and an existing record is left as it is.
create_policy(a) ==
    /\ pc = "Idle"
    /\ LET r == IF WeightsValid(a.weights) THEN "Ok" ELSE "InvalidTotalPercentage"
       IN  /\ result' = r
           /\ policies' =
                IF r = "Ok" /\ ~policies[a.owner].initialized
                THEN [policies EXCEPT ![a.owner] = NewPolicy(a)]
                ELSE policies
    /\ pc' = "Done"
    /\ call' = [op |-> "create_policy"] @@ a
    /\ pre' = Snapshot
    /\ UNCHANGED <<lamports, routing_rules, tx, events>>

\* ------------------------------------------------------------------------
\* The caller takes the result; the program is ready for the next call.
Return ==
    /\ pc \in {"Done", "Aborted", "Committed", "RolledBack"}
    /\ pc' = "Idle"
    /\ call' = NoCall
    /\ result' = "None"
    /\ events' = <<>>
    /\ tx' = lamports
    /\ pre' = Snapshot
    /\ UNCHANGED <<lamports, routing_rules, policies>>

\* ------------------------------------------------------------------------
\* Specifications

InitLamports == [k \in Accounts |-> IF k = "k1" THEN U64Mod - 1 ELSE 0]

InitCommon ==
    /\ lamports = InitLamports
    /\ tx = InitLamports
    /\ pc = "Idle"
    /\ call = NoCall
    /\ result = "None"
    /\ events = <<>>

\* Registries in which address a1 holds a record of owner k1 (hash unset or
\* set) and a2 holds none.
ExecRegistries ==
    {[a \in Addrs |-> IF a = "a1"
                      THEN [init |-> TRUE, owner |-> "k1", rules_uri |-> "u1", rules_hash |-> h]
                      ELSE NoRecord] : h \in {ZeroHash, "h1"}}

InitExec ==
    /\ InitCommon
    /\ routing_rules \in ExecRegistries
    /\ policies = NoPolicies
    /\ pre = Snapshot

\* The program handles one call at a time: a new one starts only from Idle.
ExecutePaymentsCall == pc = "Idle" /\ \E a \in ExecArgs : execute_payments(a)

VerifyDistributionCall == pc = "Idle" /\ \E a \in VerifyArgs : verify_distribution(a)

NextExec ==
    \/ ExecutePaymentsCall
    \/ ExecTransfer
    \/ ExecFault
    \/ ExecCommit
    \/ VerifyDistributionCall
    \/ Return

\* Plans against a fixed registry: execute_payments and verify_distribution.
SpecExec == InitExec /\ [][NextExec]_vars

\* No RoutingRules account exists yet.
InitRules ==
    /\ InitCommon
    /\ routing_rules = [a \in Addrs |-> NoRecord]
    /\ policies = NoPolicies
    /\ pre = Snapshot

SetRulesUriCall == pc = "Idle" /\ \E a \in SetRulesUriArgs : set_rules_uri(a)

UpdateRulesHashCall == pc = "Idle" /\ \E a \in UpdateRulesHashArgs : update_rules_hash(a)

NextRules ==
    \/ SetRulesUriCall
    \/ UpdateRulesHashCall
    \/ VerifyDistributionCall
    \/ Return

\* The registry and the verifier: every instruction but execute_payments.
SpecRules == InitRules /\ [][NextRules]_vars

\* Policy stores in which owner k1 has no Policy yet, or has the even split.
PolicyStores ==
    {NoPolicies,
     [NoPolicies EXCEPT !["k1"] =
        [initialized |-> TRUE, weights |-> [i \in 1 .. WeightSlots |-> 10]]]}

InitPolicy ==
    /\ InitCommon
    /\ routing_rules = [a \in Addrs |-> NoRecord]
    /\ policies \in PolicyStores
    /\ pre = Snapshot

CreatePolicyCall == pc = "Idle" /\ \E a \in CreatePolicyArgs : create_policy(a)

NextPolicy == CreatePolicyCall

\* The PolicyStore: one create_policy call, with any owner and weights,
\* against each of the stores.
SpecPolicy == InitPolicy /\ [][NextPolicy]_vars

\* The four instructions of src/lib.rs.
Init == InitRules

Next == NextRules \/ NextExec

Spec == Init /\ [][Next]_vars

\* Calls whose plan has at most one payment.
ShortPlanExecArgs ==
    [routing_rules : Addrs, payer : Keys, payer_signed : BOOLEAN, owner : Keys,
     payment_amounts : SeqsUpTo(U64, 1), total_amount : U64,
     remaining_accounts : SeqsUpTo(Accounts, 1)]

ShortPlanVerifyArgs ==
    [routing_rules : Addrs, payment_amounts : SeqsUpTo(U64, 1),
     rules_hash : Hashes, total_amount : U64, n_remaining : 0 .. 1]

ExecutePaymentsShortCall ==
    pc = "Idle" /\ \E a \in ShortPlanExecArgs : execute_payments(a)

VerifyDistributionShortCall ==
    pc = "Idle" /\ \E a \in ShortPlanVerifyArgs : verify_distribution(a)

NextAll ==
    \/ SetRulesUriCall
    \/ UpdateRulesHashCall
    \/ VerifyDistributionShortCall
    \/ ExecutePaymentsShortCall
    \/ ExecTransfer
    \/ ExecFault
    \/ ExecCommit
    \/ Return

\* The four instructions in any order, from an empty registry, with plans of
\* at most one payment.
SpecAll == InitRules /\ [][NextAll]_vars

\* ------------------------------------------------------------------------
\* Properties

\* The current call is an execute_payments call.
InExecutePayments == pc # "Idle" /\ call.op = "execute_payments"

\* The current execute_payments call has returned.
ExecutePaymentsFinished ==
    InExecutePayments /\ pc \in {"Aborted", "Committed", "RolledBack"}

\* The record the current call names, as it was when the call started.
NamedRecord == pre.routing_rules[call.routing_rules]

\* The call names an existing record, its payer has signed, and the owner
\* passed with it is the record's owner.
OwnerMatched == NamedRecord.init /\ call.payer_signed /\ NamedRecord.owner = call.owner

\* Nothing of the call has reached the ledger and no transfer was performed.
NoTransfer == lamports = pre.lamports /\ events = <<>>

TransferErrors == {"InsufficientFunds", "InvalidRecipient", "EnvironmentFault"}

\* C1. Atomicity of execute_payments: when the k-th transfer fails, every
\* balance on the ledger equals its value before the call and the call
\* returns the transfer's error; while the transfers run, none of them is
\* visible on the ledger.
C1_Atomicity ==
    /\ (InExecutePayments /\ pc = "RolledBack") =>
            (lamports = pre.lamports /\ result \in TransferErrors)
    /\ (InExecutePayments /\ pc = "Transferring") => lamports = pre.lamports

\* A call that failed after a transfer of a positive amount had gone through.
C1_Witness ==
    /\ InExecutePayments /\ pc = "RolledBack"
    /\ result = "InsufficientFunds"
    /\ \E j \in 1 .. Len(events) : events[j].amount > 0 /\ events[j].to # call.payer

\* C2. For amounts and recipients of unequal length execute_payments fails
\* and no transfer occurs; the error is RecipientCountMismatch whenever the
\* call passed account validation (the payer signed, the owner matched),
\* whatever the amounts, the recipients and the claimed total are.
C2_CountMismatch ==
    (InExecutePayments /\ Len(call.remaining_accounts) # Len(call.payment_amounts)) =>
        /\ pc = "Aborted"
        /\ NoTransfer
        /\ OwnerMatched => result = "RecipientCountMismatch"

\* A call with fewer recipients than amounts, refused for that reason.
C2_Witness ==
    /\ InExecutePayments /\ pc = "Aborted"
    /\ result = "RecipientCountMismatch"
    /\ Len(call.remaining_accounts) < Len(call.payment_amounts)
    /\ pre.lamports[call.payer] >= TrueSum(call.payment_amounts)

\* C3 (as claimed). For amounts whose sum differs from the claimed total,
\* an otherwise valid execute_payments call (payer signed, owner matched, as
\* many recipients as amounts) fails with InvalidTotalAmount and no transfer
\* occurs.
C3_SumMismatch ==
    (/\ ExecutePaymentsFinished
     /\ OwnerMatched
     /\ Len(call.remaining_accounts) = Len(call.payment_amounts)
     /\ TrueSum(call.payment_amounts) # call.total_amount) =>
        (pc = "Aborted" /\ result = "InvalidTotalAmount" /\ NoTransfer)

\* C4. When the owner passed to execute_payments differs from the owner
\* field of the RoutingRules record passed with it, the call fails and no
\* transfer occurs, whatever the amounts and recipients; the error is
\* Unauthorized whenever the payer has signed.
C4_Unauthorized ==
    (InExecutePayments /\ NamedRecord.init /\ NamedRecord.owner # call.owner) =>
        /\ pc = "Aborted"
        /\ NoTransfer
        /\ call.payer_signed => result = "Unauthorized"

\* An unauthorized call whose plan was valid and affordable.
C4_Witness ==
    /\ InExecutePayments /\ result = "Unauthorized"
    /\ Len(call.remaining_accounts) = Len(call.payment_amounts)
    /\ Len(call.payment_amounts) > 0
    /\ TrueSum(call.payment_amounts) = call.total_amount
    /\ call.total_amount > 0
    /\ pre.lamports[call.payer] >= call.total_amount

\* C5. update_rules_hash called by anyone but the stored owner (another
\* key, or the owner's key without its signature) fails and leaves the
\* record, and every other record, as it was; called by a signer other than
\* the stored owner it fails with Unauthorized.
C5_RotateUnauthorized ==
    (/\ pc = "Done" /\ call.op = "update_rules_hash"
     /\ NamedRecord.init
     /\ (NamedRecord.owner # call.owner \/ ~call.owner_signed)) =>
        /\ result # "Ok"
        /\ routing_rules = pre.routing_rules
        /\ (call.owner_signed /\ NamedRecord.owner # call.owner) => result = "Unauthorized"

\* A refused rotation that asked for a hash other than the stored one.
C5_Witness ==
    /\ pc = "Done" /\ call.op = "update_rules_hash"
    /\ result = "Unauthorized"
    /\ call.rules_hash # NamedRecord.rules_hash
    /\ NamedRecord.rules_hash # ZeroHash

\* The current call is a verify_distribution call that has returned.
VerifyFinished == pc = "Done" /\ call.op = "verify_distribution"

\* C6. Hash-gating of verify_distribution, for a plan whose amounts sum to
\* the claimed total: with an all-zero stored hash it succeeds for every
\* submitted hash; with a stored hash H other than zero it succeeds exactly
\* when the submitted hash is H and fails with RulesHashMismatch otherwise.
C6_HashGating ==
    (/\ VerifyFinished
     /\ NamedRecord.init
     /\ TrueSum(call.payment_amounts) = call.total_amount) =>
        LET H == NamedRecord.rules_hash
        IN  /\ H = ZeroHash => result = "Ok"
            /\ H # ZeroHash => (result = "Ok" <=> call.rules_hash = H)
            /\ (H # ZeroHash /\ call.rules_hash # H) => result = "RulesHashMismatch"

\* A valid plan refused because it names another non-zero hash than the
\* stored one.
C6_Witness ==
    /\ VerifyFinished
    /\ NamedRecord.init
    /\ TrueSum(call.payment_amounts) = call.total_amount
    /\ Len(call.payment_amounts) > 0
    /\ NamedRecord.rules_hash # ZeroHash
    /\ call.rules_hash \notin {ZeroHash, NamedRecord.rules_hash}
    /\ result = "RulesHashMismatch"

\* The call has got past its preconditions: transfers may be attempted.
PastValidation == InExecutePayments /\ pc \in {"Transferring", "Committed", "RolledBack"}

C8_Ordering ==
    PastValidation =>
        /\ Len(events) <= Len(call.payment_amounts)
        /\ \A j \in 1 .. Len(events) :
              events[j] = [index |-> j, to |-> call.remaining_accounts[j],
                           amount |-> call.payment_amounts[j]]
        /\ pc = "Committed" => Len(events) = Len(call.payment_amounts)

\* A committed call of two different transfers.
C8_Witness ==
    /\ InExecutePayments /\ pc = "Committed"
    /\ Len(events) = 2
    /\ events[1].to # events[2].to
    /\ events[1].amount # events[2].amount

\* C9 (as claimed). When the sum of the amounts exceeds the u64 range, an
\* otherwise valid execute_payments call (payer signed, owner matched, as
\* many recipients as amounts) fails with MathError.
C9_OverflowIsMathError ==
    (/\ ExecutePaymentsFinished
     /\ OwnerMatched
     /\ Len(call.remaining_accounts) = Len(call.payment_amounts)
     /\ TrueSum(call.payment_amounts) >= U64Mod) =>
        result = "MathError"

\* C10 (as claimed). No owner has more than one RoutingRules record, and
\* set_rules_uri for an owner who already has one fails and changes nothing.
C10_OneRecordPerOwner ==
    /\ \A a, b \in Addrs :
          (routing_rules[a].init /\ routing_rules[b].init
           /\ routing_rules[a].owner = routing_rules[b].owner) => a = b
    /\ (/\ pc = "Done" /\ call.op = "set_rules_uri"
        /\ \E b \in Addrs : pre.routing_rules[b].init
                            /\ pre.routing_rules[b].owner = call.owner) =>
          (result # "Ok" /\ routing_rules = pre.routing_rules)

\* The current call is a create_policy call that has returned.
CreatePolicyFinished == pc = "Done" /\ call.op = "create_policy"

\* C11. For every vector of ten weights create_policy succeeds exactly when
\* the weights add up to 100; for any other sum it fails with InvalidTotalPercentage (InvalidWeights)
\* and no Policy record is created or changed. A successful call leaves the
\* owner with a Policy.
C11_WeightsSum ==
    CreatePolicyFinished =>
        /\ result = "Ok" <=> TrueSum(call.weights) = 100
        /\ result # "Ok" => (result = "InvalidTotalPercentage" /\ policies = pre.policies)
        /\ result = "Ok" => policies[call.owner].initialized
        /\ Len(call.weights) = 10

\* Weights above the total, refused for an owner who had no Policy.
C11_Witness ==
    /\ CreatePolicyFinished
    /\ result = "InvalidTotalPercentage"
    /\ TrueSum(call.weights) > 100
    /\ ~pre.policies[call.owner].initialized

\* C12. verify_distribution is a pure validation: whatever it returns, every
\* RoutingRules record, every Policy and every balance is as it was before
\* the call, so the calls that follow it start from the state they would
\* have started from without it.
C12_VerifyIsPure ==
    VerifyFinished =>
        /\ routing_rules = pre.routing_rules
        /\ lamports = pre.lamports
        /\ policies = pre.policies
        /\ tx = lamports

\* A plan accepted against a record whose hash is unset, while another
\* record exists.
C12_Witness ==
    /\ VerifyFinished
    /\ result = "Ok"
    /\ NamedRecord.rules_hash = ZeroHash
    /\ call.rules_hash # ZeroHash
    /\ Len(call.payment_amounts) > 0
    /\ \A b \in Addrs : routing_rules[b].init

\* What account k is paid by the current call: the sum of payment_amounts[i]
\* over the indices i at which k is the recipient.
PaidTo(k) ==
    TrueSum([i \in 1 .. Len(call.payment_amounts) |->
                IF call.remaining_accounts[i] = k THEN call.payment_amounts[i] ELSE 0])

\* All the lamports of a ledger.
TotalLamports(bal) == bal["k1"] + bal["k2"] + bal[SystemProgram]

\* C13 (as claimed). After a committed execute_payments every account holds
\* what it held before plus the amounts at the indices where it is the
\* recipient, the payer holds total_amount less than that, and the total of
\* all balances is what it was.
C13_Postcondition ==
    (InExecutePayments /\ pc = "Committed") =>
        /\ \A k \in Accounts :
              lamports[k] = pre.lamports[k] + PaidTo(k)
                            - (IF k = call.payer THEN call.total_amount ELSE 0)
        /\ TotalLamports(lamports) = TotalLamports(pre.lamports)

\* The current call is an update_rules_hash call that has returned.
RotateFinished == pc = "Done" /\ call.op = "update_rules_hash"

\* C14. A record's rules_hash is all-zero when set_rules_uri has created
\* it; afterwards the hash of a record changes only in an update_rules_hash
\* call that names this record, is signed by its owner and succeeds, and
\* after such a call it is the hash passed. set_rules_uri for other
\* addresses, verify_distribution and execute_payments leave it alone, and
\* update_rules_hash changes no balance.
C14_HashChangesOnlyByRotate ==
    /\ (pc = "Done" /\ call.op = "set_rules_uri" /\ result = "Ok") =>
            routing_rules[call.routing_rules].rules_hash = ZeroHash
    /\ \A a \in Addrs :
          routing_rules[a].rules_hash # pre.routing_rules[a].rules_hash =>
            /\ RotateFinished /\ result = "Ok"
            /\ call.routing_rules = a
            /\ call.owner_signed
            /\ call.owner = pre.routing_rules[a].owner
    /\ (RotateFinished /\ result = "Ok") =>
            routing_rules[call.routing_rules].rules_hash = call.rules_hash
    /\ RotateFinished => (lamports = pre.lamports /\ tx = lamports)

\* A rotation from one set hash to another, after payments have moved
\* lamports, while the owner's other record keeps its own hash.
C14_Witness ==
    /\ RotateFinished /\ result = "Ok"
    /\ NamedRecord.rules_hash # ZeroHash
    /\ call.rules_hash \notin {ZeroHash, NamedRecord.rules_hash}
    /\ lamports["k2"] > 0
    /\ \E b \in Addrs \ {call.routing_rules} :
          /\ routing_rules[b].init
          /\ routing_rules[b].owner = call.owner
          /\ routing_rules[b].rules_hash \notin {ZeroHash, call.rules_hash}

\* C15. owner and rules_uri of a record are the values set_rules_uri was
\* given when it created the record, and no call of any instruction changes
\* them or removes the record afterwards.
C15_OwnerAndUriFixed ==
    /\ (pc = "Done" /\ call.op = "set_rules_uri" /\ result = "Ok") =>
            /\ ~NamedRecord.init
            /\ routing_rules[call.routing_rules].init
            /\ routing_rules[call.routing_rules].owner = call.owner
            /\ routing_rules[call.routing_rules].rules_uri = call.rules_uri
    /\ \A a \in Addrs :
          pre.routing_rules[a].init =>
            /\ routing_rules[a].init
            /\ routing_rules[a].owner = pre.routing_rules[a].owner
            /\ routing_rules[a].rules_uri = pre.routing_rules[a].rules_uri

\* set_rules_uri by another signer, with another locator, at an address
\* whose record has had its hash rotated: refused.
C15_Witness ==
    /\ pc = "Done" /\ call.op = "set_rules_uri"
    /\ result = "AccountAlreadyInUse"
    /\ call.owner # NamedRecord.owner
    /\ call.rules_uri # NamedRecord.rules_uri
    /\ NamedRecord.rules_hash # ZeroHash

\* C16 (as claimed). verify_distribution called with recipients
\* (remaining_accounts) whose number differs from the number of amounts
\* fails with RecipientCountMismatch; here for calls that no other check
\* refuses: the record exists, the hash check passes and the amounts add up
\* to the claimed total.
C16_VerifyCountCheck ==
    (/\ VerifyFinished
     /\ NamedRecord.init
     /\ (NamedRecord.rules_hash = ZeroHash \/ NamedRecord.rules_hash = call.rules_hash)
     /\ TrueSum(call.payment_amounts) = call.total_amount
     /\ call.n_remaining > 0
     /\ call.n_remaining # Len(call.payment_amounts)) =>
        result = "RecipientCountMismatch"

\* C17. Error precedence. execute_payments with a signed payer reports a
\* wrong owner as Unauthorized whatever else is wrong, then a recipient
\* count that differs from the number of amounts as RecipientCountMismatch,
\* then a wrong total as InvalidTotalAmount; verify_distribution reports a
\* hash that differs from a set stored hash as RulesHashMismatch, then a
\* wrong total as InvalidTotalAmount. The first failing check alone decides
\* the error; only a sum that leaves the u64 range has two outcomes, one
\* per build profile (a panic, or the comparison of the wrapped sum).
C17_ErrorPrecedence ==
    /\ (ExecutePaymentsFinished /\ NamedRecord.init /\ call.payer_signed) =>
          LET unauthorized == NamedRecord.owner # call.owner
              count == Len(call.remaining_accounts) # Len(call.payment_amounts)
              sum == TrueSum(call.payment_amounts)
          IN  /\ unauthorized => result = "Unauthorized"
              /\ (~unauthorized /\ count) => result = "RecipientCountMismatch"
              /\ (~unauthorized /\ ~count /\ sum < U64Mod /\ sum # call.total_amount) =>
                    result = "InvalidTotalAmount"
              /\ (~unauthorized /\ ~count /\ sum >= U64Mod) =>
                    \/ result = "Panic"
                    \/ sum % U64Mod # call.total_amount /\ result = "InvalidTotalAmount"
                    \/ sum % U64Mod = call.total_amount /\ pc # "Aborted"
    /\ (VerifyFinished /\ NamedRecord.init) =>
          LET mismatch == NamedRecord.rules_hash \notin {ZeroHash, call.rules_hash}
              sum == TrueSum(call.payment_amounts)
          IN  /\ mismatch => result = "RulesHashMismatch"
              /\ (~mismatch /\ sum < U64Mod /\ sum # call.total_amount) =>
                    result = "InvalidTotalAmount"
              /\ (~mismatch /\ sum < U64Mod /\ sum = call.total_amount) => result = "Ok"
              /\ (~mismatch /\ sum >= U64Mod) =>
                    \/ result = "Panic"
                    \/ sum % U64Mod # call.total_amount /\ result = "InvalidTotalAmount"
                    \/ sum % U64Mod = call.total_amount /\ result = "Ok"

\* An execute_payments call in which the owner, the recipient count and the
\* total are all wrong.
C17_Witness ==
    /\ ExecutePaymentsFinished
    /\ call.payer_signed
    /\ NamedRecord.init /\ NamedRecord.owner # call.owner
    /\ Len(call.remaining_accounts) # Len(call.payment_amounts)
    /\ TrueSum(call.payment_amounts) < U64Mod
    /\ TrueSum(call.payment_amounts) # call.total_amount
    /\ result = "Unauthorized"

VerifyNow(amounts, h) ==
    VerifyDistributionChecks(
        [routing_rules |-> call.routing_rules, payment_amounts |-> amounts,
         rules_hash |-> h, total_amount |-> TrueSum(amounts), n_remaining |-> 0],
        [panic |-> FALSE, sum |-> TrueSum(amounts)])

\* Amounts whose sum is inside u64.
SummableAmounts == {s \in SeqsUpTo(U64, MaxLen) : TrueSum(s) < U64Mod}

\* C19. Rotation keeps no history. Once update_rules_hash has succeeded
\* with a hash H2 other than zero, whatever hash H1 the record held before,
\* verify_distribution of a valid plan passes with H2 and fails with
\* RulesHashMismatch with every other hash, H1 included; once it has
\* succeeded with the all-zero hash, verify_distribution of a valid plan
\* passes with every hash.
C19_RotationNoHistory ==
    (RotateFinished /\ result = "Ok") =>
        \A amounts \in SummableAmounts, h \in Hashes :
            /\ call.rules_hash = ZeroHash => VerifyNow(amounts, h) = "Ok"
            /\ (call.rules_hash # ZeroHash /\ h = call.rules_hash) =>
                    VerifyNow(amounts, h) = "Ok"
            /\ (call.rules_hash # ZeroHash /\ h # call.rules_hash) =>
                    VerifyNow(amounts, h) = "RulesHashMismatch"

\* A rotation from one set hash to another.
C19_Witness ==
    /\ RotateFinished /\ result = "Ok"
    /\ NamedRecord.rules_hash # ZeroHash
    /\ call.rules_hash \notin {ZeroHash, NamedRecord.rules_hash}
    /\ VerifyNow(<<1>>, NamedRecord.rules_hash) = "RulesHashMismatch"

====
